---- MODULE Spec2Model ----
(***************************************************************************)
(* A model of the Prometheus charm (src/src/charm.py): the reconciliation  *)
(* pass _configure, the event handlers that trigger it, the synthesis of   *)
(* the configuration document and of the service command line, and the     *)
(* readiness latch.                                                        *)
(*                                                                         *)
(* Python strings are TLA+ strings; where the code looks inside a string   *)
(* (a time specification) the string is taken apart by Chars.  A Python    *)
(* dict is a function whose domain is the set of keys that are present.    *)
(***************************************************************************)
EXTENDS Integers, Sequences, FiniteSets, TLC

\* ------------------------------------------------------------------ bounds

\* longest list of endpoints one alertmanager relation announces
MaxAddrs == 2
\* longest list of scrape jobs the monitoring provider returns
MaxJobs == 2

\* ------------------------------------------------------------- small helpers

Range(s) == {s[i] : i \in 1..Len(s)}

SeqsUpTo(S, n) == UNION {[1..k -> S] : k \in 0..n}

\* Python's None
None == "None"

\* None where a digest is expected
NoHash == <<None>>

\* ------------------------------------------------------------ option values

\* The characters of the option strings the model draws from.
Chars(str) ==
    CASE str = ""     -> <<>>
      [] str = "10s"  -> <<"1", "0", "s">>
      [] str = "1m"   -> <<"1", "m">>
      [] str = "2h"   -> <<"2", "h">>
      [] str = "15d"  -> <<"1", "5", "d">>
      [] str = "1y"   -> <<"1", "y">>
      [] str = "0s"   -> <<"0", "s">>
      [] str = "-5m"  -> <<"-", "5", "m">>
      [] str = "+5m"  -> <<"+", "5", "m">>
      [] str = "10x"  -> <<"1", "0", "x">>
      [] str = "15x"  -> <<"1", "5", "x">>
      [] str = "s"    -> <<"s">>
      [] str = "1_0s" -> <<"1", "_", "0", "s">>
      [] str = " 5s"  -> <<" ", "5", "s">>
      [] str = "5 s"  -> <<"5", " ", "s">>
      [] str = "1.5h" -> <<"1", ".", "5", "h">>
      [] str = "10"   -> <<"1", "0">>

TimeSpecs ==
    {"", "10s", "1m", "2h", "15d", "1y", "0s", "-5m", "+5m", "10x", "15x",
     "s", "1_0s", " 5s", "5 s", "1.5h", "10"}

DigitChars == {"0", "1", "2", "3", "4", "5", "6", "7", "8", "9"}

DigitVal(c) ==
    CASE c = "0" -> 0 [] c = "1" -> 1 [] c = "2" -> 2 [] c = "3" -> 3
      [] c = "4" -> 4 [] c = "5" -> 5 [] c = "6" -> 6 [] c = "7" -> 7
      [] c = "8" -> 8 [] c = "9" -> 9

RECURSIVE StripLeft(_)
StripLeft(cs) ==
    IF cs # <<>> /\ Head(cs) = " " THEN StripLeft(Tail(cs)) ELSE cs

RECURSIVE StripRight(_)
StripRight(cs) ==
    IF cs # <<>> /\ cs[Len(cs)] = " "
    THEN StripRight(SubSeq(cs, 1, Len(cs) - 1))
    ELSE cs

\* digits with single underscores between them, as int() reads them
DigitsOk(ds) ==
    /\ ds # <<>>
    /\ \A i \in 1..Len(ds) :
          \/ ds[i] \in DigitChars
          \/ /\ ds[i] = "_"
             /\ i > 1 /\ i < Len(ds)
             /\ ds[i - 1] \in DigitChars
             /\ ds[i + 1] \in DigitChars

RECURSIVE DigitsValue(_)
DigitsValue(ds) ==
    IF ds = <<>> THEN 0
    ELSE LET front == SubSeq(ds, 1, Len(ds) - 1)
             c == ds[Len(ds)]
         IN IF c = "_" THEN DigitsValue(front)
            ELSE 10 * DigitsValue(front) + DigitVal(c)

\* Python's int(str): surrounding whitespace, an optional sign, then digits;
\* ok is FALSE where int raises ValueError.
PyInt(cs) ==
    LET body == StripRight(StripLeft(cs))
        signed == body # <<>> /\ Head(body) \in {"+", "-"}
        ds == IF signed THEN Tail(body) ELSE body
    IN IF DigitsOk(ds)
       THEN [ok |-> TRUE,
             value |-> IF signed /\ Head(body) = "-"
                       THEN 0 - DigitsValue(ds) ELSE DigitsValue(ds)]
       ELSE [ok |-> FALSE, value |-> 0]

_is_valid_timespec(timeval) ==
    LET cs == Chars(timeval) IN
    IF cs = <<>> THEN FALSE
    ELSE LET time == SubSeq(cs, 1, Len(cs) - 1)
             unit == cs[Len(cs)]
         IN IF unit \notin {"y", "w", "d", "h", "m", "s"} THEN FALSE
            ELSE IF ~PyInt(time).ok THEN FALSE
            ELSE IF ~(PyInt(time).value > 0) THEN FALSE
            ELSE TRUE

\* A faulty variant of Lower: the value is compared as given.  C23 does not
\* hold of it.
LowerNot(str) == str

\* str.lower() on the log-level values the model draws from
Lower(str) ==
    CASE str = "DEBUG" -> "debug"
      [] str = "Warn"  -> "warn"
      [] OTHER         -> str

LogLevels == {"", "info", "DEBUG", "Warn", "error", "fatal", "verbose"}

\* The external-labels option is JSON text.  json.loads either raises
\* (parses = FALSE) or yields a value: an object is a sequence of key/value
\* pairs in the order written, every other JSON type is named by kind.
JsonStr(s) == [kind |-> "string", str |-> s]
JsonNum(n) == [kind |-> "number", str |-> n]
JsonObject(items) == [parses |-> TRUE, kind |-> "object", items |-> items]
JsonOther(k) == [parses |-> TRUE, kind |-> k, items |-> <<>>]
JsonBad == [parses |-> FALSE, kind |-> "none", items |-> <<>>]
NoLabels == [parses |-> FALSE, kind |-> "absent", items |-> <<>>]

LabelTexts ==
    {NoLabels, JsonBad, JsonOther("array"), JsonOther("string"),
     JsonObject(<<>>),
     JsonObject(<< <<"env", JsonStr("prod")>> >>),
     JsonObject(<< <<"env", JsonStr("prod")>>, <<"dc", JsonStr("eu")>> >>),
     JsonObject(<< <<"dc", JsonStr("eu")>>, <<"env", JsonStr("prod")>> >>),
     JsonObject(<< <<"env", JsonStr("prod")>>, <<"shard", JsonNum("1")>> >>)}

\* A faulty variant of _are_valid_labels: the values of the object are not
\* looked at.  C24 does not hold of it.
_are_valid_labels_shape(json_data) ==
    json_data.parses /\ json_data.kind = "object"

_are_valid_labels(json_data) ==
    IF json_data.kind = "absent" THEN FALSE
    ELSE IF ~json_data.parses THEN FALSE
    ELSE IF json_data.kind # "object" THEN FALSE
    ELSE \A i \in 1..Len(json_data.items) :
            json_data.items[i][2].kind = "string"

Ports == {9090, 9091}

\* self.model.config: an option that is not set is "" (config.get is falsy)
Configs ==
    [port : Ports,
     log_level : LogLevels,
     wal_compression : BOOLEAN,
     retention : TimeSpecs,
     scrape_interval : TimeSpecs,
     scrape_timeout : TimeSpecs,
     evaluation_interval : TimeSpecs,
     external_labels : LabelTexts]

DefaultConfig ==
    [port |-> 9090, log_level |-> "", wal_compression |-> FALSE,
     retention |-> "", scrape_interval |-> "", scrape_timeout |-> "",
     evaluation_interval |-> "", external_labels |-> NoLabels]

\* --------------------------------------------------------- the command line

Flag(name, value) == <<name, value>>

_cli_args(config) ==
    LET args == << Flag("--config.file=", "/etc/prometheus/prometheus.yml"),
                   Flag("--storage.tsdb.path=", "/var/lib/prometheus"),
                   Flag("--web.enable-lifecycle", ""),
                   Flag("--web.console.templates=",
                        "/usr/share/prometheus/consoles"),
                   Flag("--web.console.libraries=",
                        "/usr/share/prometheus/console_libraries") >>
        allowed_log_levels == {"debug", "info", "warn", "error", "fatal"}
        given == IF config.log_level # "" THEN Lower(config.log_level)
                 ELSE "info"
        log_level == IF given \notin allowed_log_levels THEN "debug"
                     ELSE given
        wal == IF config.wal_compression
               THEN << Flag("--storage.tsdb.wal-compression", "") >>
               ELSE <<>>
        keep == IF config.retention # "" /\ _is_valid_timespec(config.retention)
                THEN << Flag("--storage.tsdb.retention.time=",
                             config.retention) >>
                ELSE <<>>
    IN args \o << Flag("--log.level=", log_level) >> \o wal \o keep

_command(config) == << Flag("/bin/prometheus", "") >> \o _cli_args(config)

_prometheus_layer(config) ==
    [summary |-> "Prometheus layer",
     description |-> "Pebble layer configuration for Prometheus",
     services |->
        [prometheus |->
            [override |-> "replace",
             summary |-> "prometheus daemon",
             command |-> _command(config),
             startup |-> "enabled"]]]

\* ------------------------------------------------- the configuration document

\* the labels dict: the pairs of the parsed object, or {} (no pairs)
_external_labels(config) ==
    IF config.external_labels.kind # "absent"
       /\ _are_valid_labels(config.external_labels)
    THEN [i \in 1..Len(config.external_labels.items) |->
            << config.external_labels.items[i][1],
               config.external_labels.items[i][2].str >>]
    ELSE <<>>

_prometheus_global_config(config) ==
    LET labels == _external_labels(config)
        Valid(v) == v # "" /\ _is_valid_timespec(v)
        keys == (IF labels # <<>> THEN {"external_labels"} ELSE {})
                \cup (IF Valid(config.scrape_interval)
                      THEN {"scrape_interval"} ELSE {})
                \cup (IF Valid(config.scrape_timeout)
                      THEN {"scrape_timeout"} ELSE {})
                \cup (IF Valid(config.evaluation_interval)
                      THEN {"evaluation_interval"} ELSE {})
    IN [k \in keys |->
          CASE k = "external_labels"     -> labels
            [] k = "scrape_interval"     -> config.scrape_interval
            [] k = "scrape_timeout"      -> config.scrape_timeout
            [] k = "evaluation_interval" -> config.evaluation_interval]

\* the empty string "" that _alerting_config returns when no alertmanager
\* is stored: no characters
NoAlerting == <<>>

\* Python's truth value of a str or dict: it is not empty
Truthy(x) == DOMAIN x # {}

\* A faulty variant of _alerting_config: the section is built even when no
\* endpoint is stored.  C7 does not hold of it.
_alerting_config_always(alertmanagers) ==
    [alertmanagers |-> << [static_configs |-> << [targets |-> alertmanagers] >>] >>]

_alerting_config(alertmanagers) ==
    IF Len(alertmanagers) < 1 THEN NoAlerting
    ELSE LET targets == [i \in 1..Len(alertmanagers) |-> alertmanagers[i]]
             manager_config == [static_configs |-> << [targets |-> targets] >>]
         IN [alertmanagers |-> << manager_config >>]

\* a scrape target host:port
Target(host, port) == <<host, port>>

default_config(config) ==
    [job_name |-> "prometheus",
     scrape_interval |-> "5s",
     scrape_timeout |-> "5s",
     metrics_path |-> "/metrics",
     honor_timestamps |-> TRUE,
     scheme |-> "http",
     static_configs |-> << [targets |-> << Target("localhost", config.port) >>] >>]

\* A faulty variant of scrape_configs: the self-scrape job comes last.  C10
\* does not hold of it.
scrape_configs_last(config, provider_ready, provider_jobs) ==
    (IF provider_ready THEN provider_jobs ELSE <<>>)
    \o << default_config(config) >>

\* A faulty variant of scrape_configs: the provider's jobs are appended
\* whatever the latch says.  C25 does not hold of it.
scrape_configs_ungated(config, provider_ready, provider_jobs) ==
    << default_config(config) >> \o provider_jobs

\* lines 373-377: the self-scrape job, then the provider's jobs once the
\* latch is set.  provider_jobs is what self.prometheus_provider.jobs()
\* returns.
scrape_configs(config, provider_ready, provider_jobs) ==
    << default_config(config) >>
    \o (IF provider_ready THEN provider_jobs ELSE <<>>)

\* The dict that _prometheus_config builds, before it is serialized.
ScrapeConfigDict(config, alertmanagers, provider_ready, provider_jobs) ==
    LET hasAlerting == Truthy(_alerting_config(alertmanagers))
        jobs == scrape_configs(config, provider_ready, provider_jobs)
    IN [k \in {"global", "scrape_configs"}
               \cup (IF hasAlerting THEN {"alerting"} ELSE {}) |->
          CASE k = "global"         -> _prometheus_global_config(config)
            [] k = "scrape_configs" -> jobs
            [] k = "alerting"       -> _alerting_config(alertmanagers)]

\* every mapping key of the document, in the order yaml.dump sorts them
SortedKeys ==
    << "alerting", "alertmanagers", "dc", "env", "evaluation_interval",
       "external_labels", "global", "honor_timestamps", "job_name",
       "metrics_path", "scheme", "scrape_configs", "scrape_interval",
       "scrape_timeout", "shard", "static_configs", "targets" >>

\* yaml.dump of a mapping whose values are already text: key: value lines,
\* keys sorted
DumpDict(d) ==
    LET ks == SelectSeq(SortedKeys, LAMBDA k : k \in DOMAIN d)
    IN [i \in 1..Len(ks) |-> << ks[i], d[ks[i]] >>]

\* A faulty variant of DumpPairs: the pairs are written in insertion order.
\* C13 does not hold of it.
DumpPairsInsertion(pairs) == pairs

\* yaml.dump of a dict given as key/value pairs in insertion order
DumpPairs(pairs) ==
    LET Has(k) == \E i \in 1..Len(pairs) : pairs[i][1] = k
        ValueOf(k) == pairs[CHOOSE i \in 1..Len(pairs) : pairs[i][1] = k][2]
        ks == SelectSeq(SortedKeys, Has)
    IN [i \in 1..Len(ks) |-> << ks[i], ValueOf(ks[i]) >>]

DumpGlobal(g) ==
    LET ks == SelectSeq(SortedKeys, LAMBDA k : k \in DOMAIN g)
    IN [i \in 1..Len(ks) |->
          << ks[i], IF ks[i] = "external_labels" THEN DumpPairs(g[ks[i]])
                    ELSE g[ks[i]] >>]

\* yaml.dump(scrape_config): the text of the configuration file
yaml_dump(doc) ==
    LET ks == SelectSeq(SortedKeys, LAMBDA k : k \in DOMAIN doc)
    IN [i \in 1..Len(ks) |->
          << ks[i],
             CASE ks[i] = "global" -> DumpGlobal(doc[ks[i]])
               [] ks[i] = "scrape_configs" ->
                    [j \in 1..Len(doc[ks[i]]) |-> DumpDict(doc[ks[i]][j])]
               [] ks[i] = "alerting" -> DumpDict(doc[ks[i]]) >>]

_prometheus_config(config, alertmanagers, provider_ready, provider_jobs) ==
    yaml_dump(ScrapeConfigDict(config, alertmanagers, provider_ready,
                               provider_jobs))

\* hashlib.md5(...).hexdigest(): equal digests for equal texts only
Md5(text) == <<"md5", text>>

\* ------------------------------------------------------------------- state

Peers == {"A", "B"}
Addrs == {"10.0.0.5:9093", "10.0.0.6:9093"}
AddrLists == SeqsUpTo(Addrs, MaxAddrs)

\* a peer-supplied scrape job; the charm passes it through unread
PeerJob(name, host) ==
    [job_name |-> name,
     scrape_interval |-> "30s",
     scrape_timeout |-> "10s",
     metrics_path |-> "/metrics",
     honor_timestamps |-> TRUE,
     scheme |-> "http",
     static_configs |-> << [targets |-> << Target(host, 8080) >>] >>]

PeerJobs ==
    {PeerJob("app-1", "10.1.0.1"), PeerJob("app-2", "10.1.0.2"),
     PeerJob("app-3", "10.1.0.3")}

\* job lists of the provider: no job twice
JobLists ==
    {l \in SeqsUpTo(PeerJobs, MaxJobs) :
        \A i, j \in 1..Len(l) : i # j => l[i] # l[j]}

Version == "2.26.0"

\* the events of Spec: one alertmanager relation, announcing at most one
\* endpoint; the provider has one job, which a peer can withdraw and
\* announce again
CorePeers == {"A"}
CoreAddrLists == {l \in AddrLists : Len(l) <= 1}
CoreJobs == << PeerJob("app-1", "10.1.0.1") >>
CoreJobLists == {<<>>, CoreJobs}

VARIABLES
    config,          \* self.model.config
    leader,          \* self.unit.is_leader()
    pebble_ready,    \* the pebble control channel of the container is reachable
    stored,          \* self._stored
    config_file,     \* /etc/prometheus/prometheus.yml in the container
    plan_services,   \* container.get_plan().services
    running,         \* container.get_service("prometheus").is_running()
    unit_status,     \* self.unit.status
    app_status,      \* self.app.status
    provider_jobs,   \* what self.prometheus_provider.jobs() returns
    relations,       \* per peer: the endpoints this unit last recorded from
                     \* the peer's alertmanager relation (<<>> once it left)
    remote_write,    \* the prometheus-remote-write relations: data, per
                     \* relation, the unit's remote_write_endpoint; args,
                     \* the arguments of the set_endpoint call just made
    started,         \* the prometheus process has been running at some
                     \* time since the unit was deployed
    last             \* the log of the last step: the event handled, what
                     \* the probe returned if the latch was still unset,
                     \* the endpoints stored before an alertmanager event,
                     \* whether the pass repeats a reconciled pass on the
                     \* same inputs, whether __init__ created
                     \* self.prometheus_provider, and the log of the pass

vars == << config, leader, pebble_ready, stored, config_file, plan_services,
           running, unit_status, app_status, provider_jobs, relations,
           remote_write, started, last >>

NoFile == <<>>
NoServices == [n \in {} |-> n]

NoPass ==
    [configured |-> FALSE, calls |-> <<>>, outcome |-> "none",
     failed |-> "", needs |-> FALSE, differs |-> FALSE]

\* no argument of set_endpoint recorded
NoArgs ==
    [called |-> FALSE, schema |-> "", address |-> "",
     port |-> [type |-> "str", int |-> 0, str |-> ""], path |-> <<>>]

\* no prometheus-remote-write relation
NoRemoteWrite == [data |-> [r \in {} |-> <<>>], args |-> NoArgs]

NoEvent ==
    [ev |-> "none", first_version |-> None, am_before |-> <<>>,
     again |-> FALSE, provider |-> FALSE, pass |-> NoPass]

\* the unit as the charm is first deployed
Deployed(ldr, up, jobs) ==
    /\ config = DefaultConfig
    /\ leader = ldr
    /\ pebble_ready = up
    /\ stored = [alertmanagers |-> <<>>, provider_ready |-> FALSE,
                 prometheus_config_hash |-> NoHash]
    /\ config_file = NoFile
    /\ plan_services = NoServices
    /\ running = FALSE
    /\ unit_status = "unknown"
    /\ app_status = "unknown"
    /\ provider_jobs = jobs
    /\ relations = [p \in Peers |-> <<>>]
    /\ remote_write = NoRemoteWrite
    /\ started = running
    /\ last = NoEvent

Init == \E ldr \in BOOLEAN : Deployed(ldr, FALSE, CoreJobs)

\* -------------------------------------------------------- the readiness latch

\* A faulty variant of provider_ready: the answer follows the probe and
\* nothing is remembered.  C6 does not hold of it.
provider_ready_unlatched(stored_ready, version) == version # None

\* the provider_ready property: version is what self.version returned
provider_ready(stored_ready, version) ==
    IF ~stored_ready /\ version # None THEN TRUE ELSE stored_ready

\* ------------------------------------------------------- the pass: _configure

\* A faulty variant of needsApply: the file is written only while no digest
\* is recorded.  C21 does not hold of it.
needsApplyFirst(stored_hash, config_hash) == stored_hash = NoHash

\* A faulty variant of needsApply: every pass writes the file.  C1 does not
\* hold of it.
needsApplyAlways(stored_hash, config_hash) == TRUE

\* line 86
needsApply(stored_hash, config_hash) == stored_hash # config_hash

\* A faulty variant of ServicesDiffer: every pass registers the layer and
\* restarts the service.  C2 (as amended) does not hold of it.
AlwaysDiffer(services, layer) == TRUE

\* line 98
ServicesDiffer(services, layer) == services # layer.services

\* container.add_layer("prometheus", layer, combine=True): the layer's
\* services replace the ones of the same name
AddLayer(services, layer) ==
    [n \in DOMAIN services \cup DOMAIN layer.services |->
        IF n \in DOMAIN layer.services THEN layer.services[n] ELSE services[n]]

Raised(r, call) ==
    [r EXCEPT !.calls = @ \o <<call>>, !.outcome = "raised", !.failed = call]

\* A faulty variant of PushConfig: the digest is recorded before the push is
\* tried, so it is recorded when the push fails.  C4 does not hold of it.
PushConfigHashFirst(r, up, fault, prometheus_config, config_hash) ==
    IF ~up
    THEN [r EXCEPT !.calls = @ \o <<"push">>, !.outcome = "aborted",
                   !.failed = "push", !.hash = config_hash]
    ELSE IF fault = "push"
         THEN [Raised(r, "push") EXCEPT !.hash = config_hash]
    ELSE [r EXCEPT !.calls = @ \o <<"push">>, !.file = prometheus_config,
                   !.hash = config_hash]

\* A faulty variant of PushConfig: the file is pushed and its digest is not
\* recorded.  C5 does not hold of it.
PushConfigNoRecord(r, up, fault, prometheus_config, config_hash) ==
    IF ~up
    THEN [r EXCEPT !.calls = @ \o <<"push">>, !.outcome = "aborted",
                   !.failed = "push"]
    ELSE IF fault = "push" THEN Raised(r, "push")
    ELSE [r EXCEPT !.calls = @ \o <<"push">>, !.file = prometheus_config]

\* the try block: push the file, then record its hash; a ConnectionError
\* ends the pass quietly, any other error leaves the handler
PushConfig(r, up, fault, prometheus_config, config_hash) ==
    IF ~up
    THEN [r EXCEPT !.calls = @ \o <<"push">>, !.outcome = "aborted",
                   !.failed = "push"]
    ELSE IF fault = "push" THEN Raised(r, "push")
    ELSE [r EXCEPT !.calls = @ \o <<"push">>, !.file = prometheus_config,
                   !.hash = config_hash]

StartService(r, fault) ==
    IF fault = "start" THEN [Raised(r, "start") EXCEPT !.running = FALSE]
    ELSE [r EXCEPT !.calls = @ \o <<"start">>, !.running = TRUE]

\* A faulty variant of StopService: the running service is not stopped.
\* C16 does not hold of it.
StopServiceSkipped(r, fault) == r

\* lines 101-102
StopService(r, fault) ==
    IF fault = "stop" THEN Raised(r, "stop")
    ELSE [r EXCEPT !.calls = @ \o <<"stop">>, !.running = FALSE]

\* lines 96-105: register the layer and restart when the services differ
SetupServices(r, up, fault, layer) ==
    IF ~up THEN [r EXCEPT !.outcome = "raised", !.failed = "get_plan"]
    ELSE IF ~ServicesDiffer(r.plan, layer) THEN r
    ELSE IF fault = "add_layer" THEN Raised(r, "add_layer")
    ELSE LET layered == [r EXCEPT !.calls = @ \o <<"add_layer">>,
                                  !.plan = AddLayer(r.plan, layer)]
             stopped == IF layered.running THEN StopService(layered, fault)
                        ELSE layered
         IN IF stopped.outcome = "raised" THEN stopped
            ELSE StartService(stopped, fault)

\* One pass.  prometheus_config is what self._prometheus_config() returned
\* at line 84 and layer what self._prometheus_layer() returned at line 96
\* (neither reads the container, so the handler that runs the pass computes
\* them once); st is self._stored, file/services/run the container, up
\* whether pebble answers, fault the call that fails with an error other
\* than ConnectionError ("none": no call fails).
_configure(prometheus_config, layer, st, file, services, run, up, fault) ==
    LET config_hash == Md5(prometheus_config)
        r0 == [hash |-> st.prometheus_config_hash, file |-> file,
               plan |-> services, running |-> run, calls |-> <<>>,
               outcome |-> "reconciled", failed |-> ""]
        r1 == IF needsApply(st.prometheus_config_hash, config_hash)
              THEN PushConfig(r0, up, fault, prometheus_config, config_hash)
              ELSE r0
    IN IF r1.outcome # "reconciled" THEN r1
       ELSE SetupServices(r1, up, fault, layer)

\* ------------------------------------------------------------- the handlers

\* what self.version can return when the charm object is built
Probes == IF running THEN {None, Version} ELSE {None}

Inputs(cfg, st, jobs) ==
    << cfg, st.alertmanagers, st.provider_ready,
       IF st.provider_ready THEN jobs ELSE <<>> >>

\* The log of a pass: the calls it issued, how it ended ("reconciled", at
\* its end; "aborted", the quiet return of line 93; "raised", an error left
\* the handler) and the call that failed; and what held as it began: needs,
\* the document's digest was not the stored one; differs, the services of
\* the plan were not the layer's.
PassLog(r, prometheus_config, layer, st) ==
    [configured |-> TRUE, calls |-> r.calls, outcome |-> r.outcome,
     failed |-> r.failed,
     needs |-> st.prometheus_config_hash # Md5(prometheus_config),
     differs |-> plan_services # layer.services]

\* the calls of a pass that can fail with an error of their own: the ones
\* the pass issues when none fails, pebble being reachable
FaultsOf(r, up) == {"none"} \cup (IF up THEN Range(r.calls) ELSE {})

\* One hook: the charm object is built (__init__ evaluates provider_ready
\* with the probe result version), then the handler of event ev runs.  cfg,
\* am and jobs are the configuration, the stored endpoints and the provider's
\* jobs as the handler leaves them before it calls _configure; runs says
\* whether it calls _configure at all.  Any one call of the pass may fail.
Hook(ev, cfg, am, jobs, version, runs) ==
    /\ version \in Probes
    /\ \E st \in {[stored EXCEPT
                     !.alertmanagers = am,
                     !.provider_ready = provider_ready(@, version)]} :
       \E prometheus_config \in
             {IF runs
              THEN _prometheus_config(cfg, st.alertmanagers,
                                      st.provider_ready, jobs)
              ELSE NoFile} :
       \E layer \in {_prometheus_layer(cfg)} :
       \E r0 \in {IF runs
                  THEN _configure(prometheus_config, layer, st, config_file,
                                  plan_services, running, pebble_ready,
                                  "none")
                  ELSE [calls |-> <<>>]} :
       \E fault \in FaultsOf(r0, pebble_ready) :
       \E r \in {IF fault = "none" THEN r0
                 ELSE _configure(prometheus_config, layer, st, config_file,
                                 plan_services, running, pebble_ready,
                                 fault)} :
          /\ config' = cfg
          /\ provider_jobs' = jobs
          /\ last' = [ev |-> ev,
                      first_version |-> IF stored.provider_ready THEN None
                                        ELSE version,
                      am_before |->
                          IF ev \in {"alertmanager_changed",
                                     "alertmanager_broken"}
                          THEN stored.alertmanagers ELSE <<>>,
                      again |-> /\ runs
                                /\ pebble_ready
                                /\ last.pass.outcome = "reconciled"
                                /\ Inputs(cfg, st, jobs)
                                   = Inputs(config, stored, provider_jobs),
                      provider |-> st.provider_ready,
                      pass |-> IF runs THEN PassLog(r, prometheus_config, layer, st)
                               ELSE NoPass]
          /\ IF runs
             THEN /\ stored' = [st EXCEPT !.prometheus_config_hash = r.hash]
                  /\ config_file' = r.file
                  /\ plan_services' = r.plan
                  /\ running' = r.running
                  /\ unit_status' = IF r.outcome = "reconciled" THEN "active"
                                    ELSE unit_status
                  /\ app_status' = IF r.outcome = "reconciled" /\ leader
                                   THEN "active" ELSE app_status
             ELSE /\ stored' = st
                  /\ UNCHANGED << config_file, plan_services, running,
                                  unit_status, app_status >>
          /\ started' = (started \/ running')
          /\ UNCHANGED << leader, pebble_ready, remote_write >>

_on_pebble_ready(version) ==
    /\ Hook("pebble_ready", config, stored.alertmanagers, provider_jobs,
            version, TRUE)
    /\ UNCHANGED relations

_on_config_changed(cfg, version) ==
    /\ Hook("config_changed", cfg, stored.alertmanagers, provider_jobs,
            version, TRUE)
    /\ UNCHANGED relations

\* the targets_changed event of the provider, which exists (and is observed)
\* only when provider_ready was true as the charm object was built
_on_scrape_targets_changed(jobs, version) ==
    /\ Hook("targets_changed", config, stored.alertmanagers, jobs,
            version, provider_ready(stored.provider_ready, version))
    /\ UNCHANGED relations

\* A faulty variant of ClearAlertmanagers: the list is left as it was.  C8
\* does not hold of it.
KeepAlertmanagers(alertmanagers) == alertmanagers

\* line 158: self._stored.alertmanagers.clear()
ClearAlertmanagers(alertmanagers) == <<>>

\* line 145: self._stored.alertmanagers = addrs
SetAlertmanagers(alertmanagers, addrs) == addrs

\* A faulty variant of _on_alertmanager_changed: the handler does not ask
\* whether the unit is the leader.  C26 does not hold of it.
_on_alertmanager_changed_any(peer, addrs, version) ==
    /\ Hook("alertmanager_changed", config,
            SetAlertmanagers(stored.alertmanagers, addrs),
            provider_jobs, version, TRUE)
    /\ relations' = [relations EXCEPT ![peer] = addrs]

_on_alertmanager_changed(peer, addrs, version) ==
    IF leader
    THEN /\ Hook("alertmanager_changed", config,
                 SetAlertmanagers(stored.alertmanagers, addrs),
                 provider_jobs, version, TRUE)
         /\ relations' = [relations EXCEPT ![peer] = addrs]
    ELSE /\ Hook("alertmanager_changed", config,
                 stored.alertmanagers, provider_jobs, version, FALSE)
         /\ UNCHANGED relations

_on_alertmanager_broken(peer, version) ==
    IF leader
    THEN /\ Hook("alertmanager_broken", config,
                 ClearAlertmanagers(stored.alertmanagers), provider_jobs,
                 version, TRUE)
         /\ relations' = [relations EXCEPT ![peer] = <<>>]
    ELSE /\ Hook("alertmanager_broken", config, stored.alertmanagers,
                 provider_jobs, version, FALSE)
         /\ UNCHANGED relations

_on_stop(version) ==
    /\ version \in Probes
    /\ stored' = [stored EXCEPT
                    !.provider_ready = provider_ready(@, version)]
    /\ unit_status' = "maintenance"
    /\ last' = [NoEvent EXCEPT
                  !.ev = "stop",
                  !.first_version = IF stored.provider_ready THEN None
                                    ELSE version,
                  !.provider = provider_ready(stored.provider_ready, version)]
    /\ UNCHANGED << config, leader, pebble_ready, config_file, plan_services,
                    running, app_status, provider_jobs, relations,
                    remote_write, started >>

\* ------------------------------------------ the remote-write provider library

\* ids of the relations of the managed name
RemoteRelations == {1, 2}

\* network_binding.network.bind_address
BindAddress == "10.1.2.3"

\* what set_endpoint is called with: a path is the sequence of its characters
Schemas == {"http", "https"}
Addresses == {None, "", "prom.example"}
EndpointPorts == {[type |-> "int", int |-> 9090, str |-> ""],
                  [type |-> "str", int |-> 0, str |-> "9091"]}
Paths == {<<>>, <<"/">>, <<"w">>, <<"/", "w">>, <<"/", "/", "w">>,
          <<"w", "/">>}

\* str(port)
Str(port) ==
    IF port.type = "str" THEN port.str
    ELSE CASE port.int = 9090 -> "9090"
           [] port.int = 80   -> "80"

\* A faulty variant of NormalizePath: an empty path becomes "/".  C14 does
\* not hold of it.
NormalizePathSlash(path) ==
    IF path # <<>> /\ Head(path) = "/" THEN path ELSE <<"/">> \o path

\* lines 328-332
NormalizePath(path) ==
    IF path # <<>>
    THEN IF Head(path) # "/" THEN <<"/">> \o path ELSE path
    ELSE <<>>

\* line 334: f"{schema}://{address}:{str(port)}{path}"
EndpointUrl(schema, address, port, path) ==
    << schema, "://", address, ":", Str(port) >> \o path

set_endpoint(schema, address, port, path) ==
    LET addr == IF address = None \/ address = "" THEN BindAddress
                ELSE address
        endpoint_url == EndpointUrl(schema, addr, port, NormalizePath(path))
    IN /\ remote_write' =
             [data |-> [r \in DOMAIN remote_write.data |-> endpoint_url],
              args |-> [called |-> TRUE, schema |-> schema,
                        address |-> address, port |-> port, path |-> path]]
       /\ UNCHANGED << config, leader, pebble_ready, stored, config_file,
                       plan_services, running, unit_status, app_status,
                       provider_jobs, relations, started, last >>

\* a relation of the managed name is established: the unit has written
\* nothing to it yet
RemoteWriteJoined(r) ==
    /\ r \notin DOMAIN remote_write.data
    /\ remote_write' =
          [data |-> [x \in DOMAIN remote_write.data \cup {r} |->
                        IF x = r THEN <<>> ELSE remote_write.data[x]],
           args |-> NoArgs]
    /\ UNCHANGED << config, leader, pebble_ready, stored, config_file,
                    plan_services, running, unit_status, app_status,
                    provider_jobs, relations, started, last >>

\* a relation of the managed name is removed
RemoteWriteDeparted(r) ==
    /\ r \in DOMAIN remote_write.data
    /\ remote_write' =
          [data |-> [x \in DOMAIN remote_write.data \ {r} |->
                        remote_write.data[x]],
           args |-> NoArgs]
    /\ UNCHANGED << config, leader, pebble_ready, stored, config_file,
                    plan_services, running, unit_status, app_status,
                    provider_jobs, relations, started, last >>

\* ---------------------------------------------------------- the environment

Env ==
    /\ last' = NoEvent
    /\ UNCHANGED << config, stored, config_file, plan_services, unit_status,
                    app_status, provider_jobs, relations, remote_write,
                    started >>

\* the pebble control channel comes up or goes away
PebbleReachable(b) ==
    /\ pebble_ready # b
    /\ pebble_ready' = b
    /\ Env
    /\ UNCHANGED << leader, running >>

\* the prometheus process exits on its own
ServiceExits ==
    /\ running
    /\ running' = FALSE
    /\ Env
    /\ UNCHANGED << leader, pebble_ready >>

\* Juju moves leadership
LeaderChanged(b) ==
    /\ leader # b
    /\ leader' = b
    /\ Env
    /\ UNCHANGED << pebble_ready, running >>

\* ------------------------------------------------------------ specifications

\* the operator's configurations of Spec: the default, one that changes only
\* the command line, one that changes only the document
CoreConfigs ==
    {DefaultConfig,
     [DefaultConfig EXCEPT !.log_level = "DEBUG"],
     [DefaultConfig EXCEPT !.scrape_interval = "10s"]}

Next ==
    \/ \E v \in Probes : _on_pebble_ready(v)
    \/ \E c \in CoreConfigs, v \in Probes : _on_config_changed(c, v)
    \/ \E p \in CorePeers, a \in CoreAddrLists, v \in Probes :
          _on_alertmanager_changed(p, a, v)
    \/ \E p \in CorePeers, v \in Probes : _on_alertmanager_broken(p, v)
    \/ \E j \in CoreJobLists, v \in Probes : _on_scrape_targets_changed(j, v)
    \/ \E b \in BOOLEAN : PebbleReachable(b)
    \/ ServiceExits

Spec == Init /\ [][Next]_vars

\* Two alertmanager relations on a leader whose pebble is reachable.
InitPeers == Deployed(TRUE, TRUE, <<>>)

NextPeers ==
    \/ \E v \in Probes : _on_pebble_ready(v)
    \/ \E p \in Peers, a \in CoreAddrLists, v \in Probes :
          _on_alertmanager_changed(p, a, v)
    \/ \E p \in Peers, v \in Probes : _on_alertmanager_broken(p, v)

SpecPeers == InitPeers /\ [][NextPeers]_vars

\* Synthesis over wider inputs: a unit whose first pass started prometheus
\* with the default configuration, and whose configuration, stored
\* endpoints, latch and provider jobs have since become any of the values
\* below (the hooks in between did not get to push the file); the next hook
\* runs the pass.
SynthConfigs ==
    {[DefaultConfig EXCEPT !.port = p, !.scrape_interval = t,
                           !.external_labels = l] :
        p \in Ports, t \in {"", "10s", "10x"},
        l \in {NoLabels, JsonObject(<< <<"env", JsonStr("prod")>> >>)}}

InitSynth ==
    /\ config \in SynthConfigs
    /\ leader = TRUE
    /\ pebble_ready = TRUE
    /\ \E am \in AddrLists, ready \in BOOLEAN :
          stored = [alertmanagers |-> am, provider_ready |-> ready,
                    prometheus_config_hash |->
                        Md5(_prometheus_config(DefaultConfig, <<>>, FALSE,
                                               <<>>))]
    /\ config_file = _prometheus_config(DefaultConfig, <<>>, FALSE, <<>>)
    /\ plan_services = _prometheus_layer(DefaultConfig).services
    /\ running = TRUE
    /\ unit_status = "active"
    /\ app_status = "active"
    /\ provider_jobs \in JobLists
    /\ relations = [p \in Peers |-> <<>>]
    /\ remote_write = NoRemoteWrite
    /\ started = running
    /\ last = NoEvent

NextSynth == \E v \in Probes : _on_pebble_ready(v)

SpecSynth == InitSynth /\ [][NextSynth]_vars

\* The options as the operator sets them at deployment: the retention with
\* either port, the three intervals of the global section, the labels with
\* the log level.  The hooks that follow run the pass on them.
OptionConfigs ==
    {[DefaultConfig EXCEPT !.retention = r, !.port = p] :
        r \in TimeSpecs, p \in Ports}
    \cup {[DefaultConfig EXCEPT !.scrape_interval = t, !.scrape_timeout = u,
                                !.evaluation_interval = v] :
             t \in TimeSpecs, u \in {"", "10s", "10x"}, v \in {"", "1m", "0s"}}
    \cup {[DefaultConfig EXCEPT !.external_labels = l, !.log_level = g,
                                !.wal_compression = w] :
             l \in LabelTexts, g \in LogLevels, w \in BOOLEAN}

InitOptions ==
    /\ config \in OptionConfigs
    /\ leader = TRUE
    /\ pebble_ready = TRUE
    /\ stored = [alertmanagers |-> <<>>, provider_ready |-> FALSE,
                 prometheus_config_hash |-> NoHash]
    /\ config_file = NoFile
    /\ plan_services = NoServices
    /\ running = FALSE
    /\ unit_status = "unknown"
    /\ app_status = "unknown"
    /\ provider_jobs = <<>>
    /\ relations = [p \in Peers |-> <<>>]
    /\ remote_write = NoRemoteWrite
    /\ started = running
    /\ last = NoEvent

NextOptions == \E v \in Probes : _on_pebble_ready(v)

SpecOptions == InitOptions /\ [][NextOptions]_vars

\* The remote-write provider: relations come and go, the charm sets the
\* endpoint.
InitEndpoint == Deployed(TRUE, TRUE, <<>>)

NextEndpoint ==
    \/ \E sc \in Schemas, a \in Addresses, p \in EndpointPorts, pa \in Paths :
          set_endpoint(sc, a, p, pa)
    \/ \E r \in RemoteRelations : RemoteWriteJoined(r)
    \/ \E r \in RemoteRelations : RemoteWriteDeparted(r)

SpecEndpoint == InitEndpoint /\ [][NextEndpoint]_vars

\* ------------------------------------------------------------------ claims

\* what the pass would synthesize in the current state
CurrentDict ==
    ScrapeConfigDict(config, stored.alertmanagers, stored.provider_ready,
                     provider_jobs)

CurrentText ==
    _prometheus_config(config, stored.alertmanagers, stored.provider_ready,
                       provider_jobs)

\* a pass that started now would push the file
PushPending == stored.prometheus_config_hash # Md5(CurrentText)

\* the step leaves every input of the synthesis as it was
SameInputs ==
    Inputs(config', stored', provider_jobs')
    = Inputs(config, stored, provider_jobs)

Calls == Range(last.pass.calls)

HasKey(text, key) == \E i \in 1..Len(text) : text[i][1] = key

\* C1: when _configure runs twice in succession, pebble reachable and serving
\* both passes (the first ended reconciled) and no input changed in between,
\* the second pass issues no push, no add_layer, no stop and no start; and no
\* pass issues any call twice, so the two passes together push at most once
\* and stop/start the service at most once.
C1_Idempotent ==
    /\ last.again => last.pass.calls = <<>> /\ last.pass.outcome = "reconciled"
    /\ last.pass.configured => Cardinality(Calls) = Len(last.pass.calls)

C1_Witness ==
    /\ last.again
    /\ last.pass.outcome = "reconciled"
    /\ running
    /\ stored.alertmanagers # <<>>
    /\ config_file = CurrentText

\* C2 as stated: a pass that finds the digest unchanged ends reconciled
\* without push, add_layer, stop or start, whatever the options are.
C2_ShortCircuit ==
    (last.pass.configured /\ ~last.pass.needs /\ pebble_ready)
        => last.pass.outcome = "reconciled" /\ last.pass.calls = <<>>

\* C2, amended: a pass that finds the digest unchanged never pushes; it
\* issues add_layer, stop or start only when pebble is reachable and the
\* services of the plan differ from the layer's; with pebble reachable and
\* the services equal it ends reconciled having issued no call.
C2_UnchangedDigest ==
    (last.pass.configured /\ ~last.pass.needs)
        => /\ "push" \notin Calls
           /\ last.pass.calls # <<>> => pebble_ready /\ last.pass.differs
           /\ (pebble_ready /\ ~last.pass.differs)
                 => last.pass.outcome = "reconciled" /\ last.pass.calls = <<>>

C2_Witness ==
    /\ last.pass.configured
    /\ ~last.pass.needs
    /\ last.pass.differs
    /\ last.pass.calls = <<"add_layer", "stop", "start">>
    /\ last.pass.outcome = "reconciled"

\* C3: a pass that runs while pebble is unreachable returns quietly (no
\* error leaves the handler), leaves the stored digest as it was and issues
\* no add_layer, stop or start.
C3_SilentAbort ==
    [][(last'.pass.configured /\ ~pebble_ready)
          => /\ last'.pass.outcome = "aborted"
             /\ stored'.prometheus_config_hash = stored.prometheus_config_hash
             /\ Range(last'.pass.calls) \cap {"add_layer", "stop", "start"}
                = {}]_vars

\* C4: a pass whose push fails leaves the stored digest and the file as they
\* were before the pass and issues no call after the push, so that a push is
\* still pending; and the next pass, the inputs being the same, begins with
\* the push.
C4_PushFailure ==
    /\ [](last.pass.failed = "push"
            => /\ last.pass.calls = <<"push">>
               /\ PushPending
               /\ IF stored.prometheus_config_hash = NoHash
                  THEN config_file = NoFile
                  ELSE stored.prometheus_config_hash = Md5(config_file))
    /\ [][/\ last'.pass.failed = "push"
               => /\ stored'.prometheus_config_hash
                     = stored.prometheus_config_hash
                  /\ config_file' = config_file
          /\ (last.pass.failed = "push" /\ last'.pass.configured
              /\ SameInputs)
               => Head(last'.pass.calls) = "push"]_vars

C4_Witness ==
    /\ last.pass.failed = "push"
    /\ last.pass.outcome = "raised"
    /\ stored.prometheus_config_hash # NoHash
    /\ stored.prometheus_config_hash # Md5(CurrentText)

\* C5: a pass whose push succeeded and whose add_layer, stop or start then
\* failed leaves the digest of the pushed document stored, so no push is
\* pending; and the next pass, the inputs being the same, does not push.
LaterFailure(log) ==
    /\ log.failed \in {"add_layer", "stop", "start"}
    /\ "push" \in Range(log.calls)

C5_ProcessFailure ==
    /\ [](LaterFailure(last.pass)
            => /\ config_file = CurrentText
               /\ stored.prometheus_config_hash = Md5(config_file)
               /\ ~PushPending)
    /\ [][(LaterFailure(last.pass) /\ last'.pass.configured /\ SameInputs)
            => "push" \notin Range(last'.pass.calls)]_vars

C5_Witness ==
    /\ last.pass.failed = "start"
    /\ last.pass.calls = <<"push", "add_layer", "stop", "start">>
    /\ ~running
    /\ ~PushPending

\* C6: stored provider_ready starts false; a hook whose probe returns a
\* version leaves it true; it turns true only in such a hook; and once true
\* it is true in every later state, whatever the later probes return.
C6_Latch ==
    /\ stored.provider_ready = FALSE
    /\ [][/\ stored.provider_ready => stored'.provider_ready
          /\ last'.first_version # None => stored'.provider_ready
          /\ (~stored.provider_ready /\ stored'.provider_ready)
                => last'.first_version = Version]_vars

\* the latch is set, and a hook has just run with prometheus down before and
\* after it (its probe returned None)
C6_Witness ==
    /\ stored.provider_ready
    /\ ~running
    /\ last.pass.configured
    /\ Calls \cap {"stop", "start"} = {}

\* C7: the synthesized document has no alerting key when no endpoint is
\* stored; when some are, its alerting section is one alertmanagers entry
\* holding one static group whose targets are the stored endpoints, in the
\* stored order; and the file of a pass that ended reconciled has the
\* alerting key in exactly that case.
C7_Alerting ==
    /\ stored.alertmanagers = <<>> => "alerting" \notin DOMAIN CurrentDict
    /\ stored.alertmanagers # <<>>
          => /\ "alerting" \in DOMAIN CurrentDict
             /\ DOMAIN CurrentDict["alerting"] = {"alertmanagers"}
             /\ Len(CurrentDict["alerting"].alertmanagers) = 1
             /\ DOMAIN CurrentDict["alerting"].alertmanagers[1]
                = {"static_configs"}
             /\ Len(CurrentDict["alerting"].alertmanagers[1].static_configs)
                = 1
             /\ CurrentDict["alerting"].alertmanagers[1].static_configs[1]
                = [targets |-> stored.alertmanagers]
    /\ last.pass.outcome = "reconciled"
          => (HasKey(config_file, "alerting") <=> stored.alertmanagers # <<>>)

C7_Witness ==
    /\ last.pass.outcome = "reconciled"
    /\ "push" \in Calls
    /\ Len(stored.alertmanagers) = MaxAddrs
    /\ HasKey(config_file, "alerting")

\* C8: on a leader, once the alertmanager relation is broken the stored
\* endpoint list is empty and the document synthesized next has no alerting
\* section; when the pass of that hook ends reconciled the file has none.
C8_PeerLeft ==
    (last.ev = "alertmanager_broken" /\ leader)
        => /\ stored.alertmanagers = <<>>
           /\ "alerting" \notin DOMAIN CurrentDict
           /\ ~HasKey(CurrentText, "alerting")
           /\ last.pass.outcome = "reconciled"
                 => ~HasKey(config_file, "alerting")

C8_Witness ==
    /\ last.ev = "alertmanager_broken"
    /\ leader
    /\ last.am_before # <<>>
    /\ last.pass.outcome = "reconciled"
    /\ "push" \in Calls
    /\ ~HasKey(config_file, "alerting")

\* C9: the stored endpoints are the union, over the peers, of the endpoint
\* list the unit last recorded from each peer that has not left.
C9_PerPeer ==
    Range(stored.alertmanagers) = UNION {Range(relations[p]) : p \in Peers}

\* C10: the scrape_configs of the synthesized document begin with the
\* self-monitoring job (localhost:<port>, 5s interval and timeout,
\* honor_timestamps, http, /metrics), no other element is that job, and the
\* rest is the jobs of the provider, in the provider's order (the provider
\* exists once the latch is set).
SelfJob ==
    [job_name |-> "prometheus", scrape_interval |-> "5s",
     scrape_timeout |-> "5s", metrics_path |-> "/metrics",
     honor_timestamps |-> TRUE, scheme |-> "http",
     static_configs |-> << [targets |-> << <<"localhost", config.port>> >>] >>]

C10_SelfScrape ==
    LET jobs == CurrentDict["scrape_configs"] IN
    /\ jobs # <<>>
    /\ Head(jobs) = SelfJob
    /\ {i \in 1..Len(jobs) : jobs[i] = SelfJob} = {1}
    /\ Tail(jobs) = IF stored.provider_ready THEN provider_jobs ELSE <<>>

C10_Witness ==
    /\ last.pass.outcome = "reconciled"
    /\ "push" \in Calls
    /\ stored.provider_ready
    /\ Len(provider_jobs) = MaxJobs
    /\ config.port # DefaultConfig.port
    /\ config_file = CurrentText

\* A positive decimal integer followed by one unit character.
IsTimeSpan(str) ==
    LET cs == Chars(str) IN
    /\ Len(cs) >= 2
    /\ cs[Len(cs)] \in {"y", "w", "d", "h", "m", "s"}
    /\ \A i \in 1..(Len(cs) - 1) : cs[i] \in DigitChars
    /\ \E i \in 1..(Len(cs) - 1) : cs[i] # "0"

\* C11: _is_valid_timespec accepts a string exactly when it is a positive
\* decimal integer followed by one unit character from {y,w,d,h,m,s}; after
\* a pass that ran to its end, the global section of the document it pushed
\* has the scrape_interval key exactly for such a value of the option.
C11_TimeSpec ==
    (last.pass.outcome = "reconciled" /\ config_file = CurrentText)
        => /\ _is_valid_timespec(config.scrape_interval)
                 <=> IsTimeSpan(config.scrape_interval)
           /\ "scrape_interval" \in DOMAIN CurrentDict["global"]
                 <=> IsTimeSpan(config.scrape_interval)

\* C12: after a pass that ran to its end, the command line registered with
\* pebble has --storage.tsdb.retention.time=<value> exactly when the
\* retention option is set and is a time-span, and the self-scrape job of
\* the pushed document targets localhost:<port> whatever the option is.
C12_Retention ==
    (last.pass.outcome = "reconciled" /\ config_file = CurrentText)
        => /\ Flag("--storage.tsdb.retention.time=", config.retention)
                 \in Range(plan_services.prometheus.command)
              <=> (config.retention # "" /\ IsTimeSpan(config.retention))
           /\ \A i \in 1..Len(plan_services.prometheus.command) :
                 plan_services.prometheus.command[i][1]
                    = "--storage.tsdb.retention.time="
                 => plan_services.prometheus.command[i][2] = config.retention
           /\ Head(CurrentDict["scrape_configs"]).static_configs
              = << [targets |-> << <<"localhost", config.port>> >>] >>

\* the configurations that differ from the current one at most in the order
\* in which the external labels were written
Reordered ==
    LET items == config.external_labels.items
        n == Len(items)
    IN {[config EXCEPT !.external_labels.items = q] :
           q \in {q \in [1..n -> Range(items)] : Range(q) = Range(items)}}

\* C13: the document synthesized from the same options, endpoints and jobs
\* is the same text, and so has the same digest, whatever the order in which
\* the keys of the external labels were inserted; a pass that ran to its end
\* on one order finds nothing to push on another.
C13_Deterministic ==
    \A c \in Reordered :
       LET text == _prometheus_config(c, stored.alertmanagers,
                                      stored.provider_ready, provider_jobs)
       IN /\ text = CurrentText
          /\ Md5(text) = Md5(CurrentText)
          /\ last.pass.outcome = "reconciled"
                => ~needsApply(stored.prometheus_config_hash, Md5(text))

C13_Witness ==
    /\ last.pass.outcome = "reconciled"
    /\ "push" \in Calls
    /\ Len(config.external_labels.items) = 2
    /\ _are_valid_labels(config.external_labels)
    /\ \E c \in Reordered : c # config
    /\ "external_labels" \in DOMAIN CurrentDict["global"]

\* C14: right after set_endpoint, every relation of the managed name holds
\* schema://address:port followed by the path, where a non-empty path that
\* does not start with "/" has one "/" put before it, a path that starts
\* with "/" is as given, and an empty path adds nothing.  The address is the
\* one given, or the bind address when none is given.
C14_Endpoint ==
    LET a == remote_write.args
        address == IF a.address \in {None, ""} THEN BindAddress
                   ELSE a.address
        path == IF a.path = <<>> THEN <<>>
                ELSE IF a.path[1] = "/" THEN a.path
                ELSE <<"/">> \o a.path
    IN a.called
          => \A r \in DOMAIN remote_write.data :
                remote_write.data[r]
                = << a.schema, "://", address, ":", Str(a.port) >> \o path

C14_Witness ==
    /\ remote_write.args.called
    /\ DOMAIN remote_write.data = RemoteRelations
    /\ remote_write.args.path = <<>>
    /\ remote_write.args.address = "prom.example"
    /\ \A r \in RemoteRelations :
          remote_write.data[r]
          = << remote_write.args.schema, "://", "prom.example", ":", "9090" >>

\* C15: a pass that finds the synthesized document different from the one
\* last applied, with pebble reachable and no call failing, pushes the file
\* and restarts prometheus.
C15_Restart ==
    (/\ last.pass.configured
     /\ last.pass.needs
     /\ pebble_ready
     /\ last.pass.outcome = "reconciled")
        => "push" \in Calls /\ "start" \in Calls

\* C16: in every pass that issues start, if the service was running as the
\* pass came to the process step then stop was issued, and had returned,
\* right before start; if it was not running, no stop was issued.  (running,
\* unprimed, is the service as the pass found it: no earlier call of the
\* pass changes it.)
C16_StopBeforeStart ==
    [][LET calls == last'.pass.calls
           n == Len(calls)
       IN (last'.pass.configured /\ "start" \in Range(calls))
             => /\ calls[n] = "start"
                /\ running => n > 1 /\ calls[n - 1] = "stop"
                /\ ~running => "stop" \notin Range(calls)
                /\ last'.pass.failed \in {"", "start"}]_vars

C16_Witness ==
    /\ last.pass.outcome = "reconciled"
    /\ last.pass.calls = <<"push", "add_layer", "stop", "start">>
    /\ running

\* C17: a pass issues add_layer, stop or start only if the services of the
\* layer differ from the ones registered with pebble or the digest of the
\* document changed in the pass; when neither does, it issues no call.
C17_NoDisruption ==
    last.pass.configured
        => /\ Calls \cap {"add_layer", "stop", "start"} # {}
                 => last.pass.differs \/ last.pass.needs
           /\ (~last.pass.differs /\ ~last.pass.needs)
                 => last.pass.calls = <<>>

C17_Witness ==
    /\ last.ev = "pebble_ready"
    /\ last.pass.outcome = "reconciled"
    /\ ~last.pass.differs
    /\ ~last.pass.needs
    /\ last.pass.calls = <<>>
    /\ running
    /\ stored.provider_ready

PeerEvents ==
    {"alertmanager_changed", "alertmanager_broken", "targets_changed"}

C19_Atomic ==
    [][(/\ last'.pass.configured
        /\ last'.pass.needs
        /\ last'.pass.differs)
          => (stored'.prometheus_config_hash # stored.prometheus_config_hash
                <=> plan_services' # plan_services)]_vars

\* C20: after a pass that registered the new service specification and
\* whose stop or start call failed, leaving the process not running, the
\* next pass, with the same inputs and pebble reachable, issues start.
C20_Retry ==
    [][(/\ last.pass.failed \in {"stop", "start"}
        /\ "add_layer" \in Range(last.pass.calls)
        /\ ~running
        /\ last'.pass.configured
        /\ pebble_ready
        /\ SameInputs)
          => "start" \in Range(last'.pass.calls)]_vars

\* C21: whatever triggers came before, duplicates and aborted passes
\* included, when a pass has run to its end the file at the configuration
\* location is the document synthesized from the current options and the
\* current stored state; and the recorded digest is at all times the digest
\* of the file that is there.
C21_Converges ==
    /\ last.pass.outcome = "reconciled" => config_file = CurrentText
    /\ IF stored.prometheus_config_hash = NoHash THEN config_file = NoFile
       ELSE stored.prometheus_config_hash = Md5(config_file)

C21_Witness ==
    /\ last.ev = "targets_changed"
    /\ last.pass.outcome = "reconciled"
    /\ "push" \in Calls
    /\ stored.alertmanagers # <<>>
    /\ config # DefaultConfig
    /\ config_file = CurrentText

\* The lists that hold the endpoints of the stored list in some order.
Announcements ==
    LET n == Len(stored.alertmanagers)
    IN {q \in [1..n -> Range(stored.alertmanagers)] :
           Range(q) = Range(stored.alertmanagers)}

\* C22: the document and its digest depend on the set of alertmanager
\* endpoints only: after a pass has run to its end, the same endpoints
\* announced in any other order synthesize the file that is in the
\* container and the digest that is recorded.
C22_TargetOrder ==
    (last.pass.outcome = "reconciled" /\ stored.alertmanagers # <<>>)
       => \A am \in Announcements :
             LET text == _prometheus_config(config, am, stored.provider_ready,
                                            provider_jobs)
             IN /\ text = config_file
                /\ ~needsApply(stored.prometheus_config_hash, Md5(text))

\* The level the specification gives for each value of the log-level option.
ExpectedLevel ==
    CASE config.log_level = ""        -> "info"
      [] config.log_level = "info"    -> "info"
      [] config.log_level = "DEBUG"   -> "debug"
      [] config.log_level = "Warn"    -> "warn"
      [] config.log_level = "error"   -> "error"
      [] config.log_level = "fatal"   -> "fatal"
      [] config.log_level = "verbose" -> "debug"

LevelFlags(command) ==
    {i \in 1..Len(command) : command[i][1] = "--log.level="}

\* C23: for every value of the log-level option the command line holds
\* exactly one --log.level= flag, its level is one of the five allowed ones,
\* and it is info for an absent or empty option, the lower-cased value when
\* that is allowed, debug otherwise; a pass that ran to its end registered
\* exactly this command line.
C23_LogLevel ==
    /\ \E i \in 1..Len(_cli_args(config)) :
          /\ LevelFlags(_cli_args(config)) = {i}
          /\ _cli_args(config)[i][2] = ExpectedLevel
          /\ _cli_args(config)[i][2]
                \in {"debug", "info", "warn", "error", "fatal"}
    /\ last.pass.outcome = "reconciled"
          => \E i \in 1..Len(plan_services.prometheus.command) :
                /\ LevelFlags(plan_services.prometheus.command) = {i}
                /\ plan_services.prometheus.command[i]
                      = Flag("--log.level=", ExpectedLevel)

C23_Witness ==
    /\ last.pass.outcome = "reconciled"
    /\ config.log_level = "Warn"
    /\ running
    /\ \E i \in 1..Len(plan_services.prometheus.command) :
          plan_services.prometheus.command[i] = Flag("--log.level=", "warn")

\* The raw option is acceptable: it parses as a non-empty JSON object whose
\* values are all strings.
Acceptable(l) ==
    /\ l.parses
    /\ l.kind = "object"
    /\ l.items # <<>>
    /\ \A i \in 1..Len(l.items) : l.items[i][2].kind = "string"

\* The full parsed mapping, as the set of its key/value pairs.
FullMapping(l) == {<< l.items[i][1], l.items[i][2].str >> : i \in 1..Len(l.items)}

\* The global section of the file in the container.
FileGlobal ==
    config_file[CHOOSE i \in 1..Len(config_file) :
                    config_file[i][1] = "global"][2]

FileLabels ==
    FileGlobal[CHOOSE i \in 1..Len(FileGlobal) :
                   FileGlobal[i][1] = "external_labels"][2]

\* C24: the global section has the key external_labels exactly when the raw
\* option parses as a non-empty JSON object whose values are all strings,
\* and then it holds the full parsed mapping; in every other case the key is
\* absent, so no part of the labels is emitted; the same holds of the file
\* that a pass which ran to its end left in the container.
C24_Labels ==
    LET g == _prometheus_global_config(config)
        l == config.external_labels
    IN /\ "external_labels" \in DOMAIN g <=> Acceptable(l)
       /\ Acceptable(l)
             => /\ Range(g.external_labels) = FullMapping(l)
                /\ Len(g.external_labels) = Len(l.items)
       /\ last.pass.outcome = "reconciled"
             => /\ HasKey(FileGlobal, "external_labels") <=> Acceptable(l)
                /\ Acceptable(l) => Range(FileLabels) = FullMapping(l)

C24_Witness ==
    /\ last.pass.outcome = "reconciled"
    /\ config.external_labels.kind = "object"
    /\ \E i \in 1..Len(config.external_labels.items) :
          config.external_labels.items[i][2].kind = "string"
    /\ \E i \in 1..Len(config.external_labels.items) :
          config.external_labels.items[i][2].kind = "number"
    /\ ~HasKey(FileGlobal, "external_labels")
    /\ running

\* The scrape jobs of the file in the container.
FileJobs ==
    config_file[CHOOSE i \in 1..Len(config_file) :
                    config_file[i][1] = "scrape_configs"][2]

\* C25: the synthesized scrape_configs holds peer-supplied jobs only if the
\* stored latch is set, and while it is unset the list is exactly the
\* self-scrape job, in the document and in the file a pass left; the latch
\* is set only once the process has run, so the pass that first starts the
\* process leaves the latch unset and a file with the self-scrape job only;
\* and whenever the latch is set during a pass, __init__ created the
\* provider object for that hook.
C25_Gated ==
    /\ [](/\ Len(CurrentDict.scrape_configs) > 1 => stored.provider_ready
          /\ ~stored.provider_ready
                => CurrentDict.scrape_configs = << default_config(config) >>
          /\ last.pass.outcome = "reconciled"
                => /\ Len(FileJobs) > 1 => stored.provider_ready
                   /\ ~stored.provider_ready => Len(FileJobs) = 1
          /\ (last.pass.configured /\ stored.provider_ready)
                => last.provider
          /\ stored.provider_ready => started)
    /\ [][(~started /\ started')
             => /\ last'.pass.configured
                /\ "start" \in Range(last'.pass.calls)
                /\ ~stored'.provider_ready
                /\ ~last'.provider
                /\ Len(FileJobs') = 1]_vars

C25_Witness ==
    /\ last.pass.outcome = "reconciled"
    /\ last.provider
    /\ stored.provider_ready
    /\ provider_jobs # <<>>
    /\ Len(FileJobs) = 1 + Len(provider_jobs)
    /\ started

\* C26: on a unit that is not the leader, an alertmanager relation changed
\* or broken event leaves the stored endpoint list, the stored digest, the
\* configuration file, the registered service specification, the process
\* state and the unit status as they were, and runs no pass.
C26_NonLeader ==
    [][(/\ ~leader
        /\ last'.ev \in {"alertmanager_changed", "alertmanager_broken"})
          => /\ stored'.alertmanagers = stored.alertmanagers
             /\ stored'.prometheus_config_hash = stored.prometheus_config_hash
             /\ config_file' = config_file
             /\ plan_services' = plan_services
             /\ running' = running
             /\ unit_status' = unit_status
             /\ app_status' = app_status
             /\ ~last'.pass.configured
             /\ last'.pass.calls = <<>>]_vars

C26_Witness ==
    /\ ~leader
    /\ last.ev = "alertmanager_changed"
    /\ ~last.pass.configured
    /\ stored.alertmanagers = <<>>
    /\ config_file # NoFile
    /\ running
    /\ unit_status = "active"

====
